---------------------------- MODULE Spec2Model ----------------------------
(***************************************************************************)
(* Model of bot.py: the per-chat config store, the learned member roster   *)
(* and the cancellable chunked /all run of the group mention bot.          *)
(*                                                                         *)
(* Handlers are asyncio tasks.  A task runs without interruption from one  *)
(* suspending await to the next, so every action below is the code a       *)
(* handler executes between two suspension points.  DB_LOCK is an          *)
(* asyncio.Lock: it is held across the awaits inside one `async with`      *)
(* block and hands over to any task that is waiting for it.                *)
(*                                                                         *)
(* Strings are TLA+ strings.  The two non-ASCII code points of the source  *)
(* are written "[U+1F4E3]" (the default emoji) and "[U+2063]" (the         *)
(* invisible separator inside the link).                                   *)
(***************************************************************************)
EXTENDS Integers, Sequences, FiniteSets, TLC

\* ------------------------------------------------------------------ bounds
\* Handler invocations one behaviour of the run controller may start.
MaxEvents == 3

\* The handler tasks that can be under way at the same time (tag_all and
\* the settings commands take several steps; the other handlers take one).
Tasks == {1, 2}

\* ------------------------------------------------------- the environment
\* Chats 1 and 2 are private chats, chat 3 is a supergroup.
Chats == {1, 2, 3}

ChatTypeOf(c) == IF c = 3 THEN "supergroup" ELSE "private"

\* The accounts that write to the bot; each row is what Telegram reports
\* for the account at some time (account 1 renames itself between the
\* first two rows).
People ==
    { [id |-> 1, is_bot |-> FALSE, first_name |-> "", last_name |-> "", username |-> "alice"],
      [id |-> 1, is_bot |-> FALSE, first_name |-> "Al", last_name |-> "Ice", username |-> ""],
      [id |-> 2, is_bot |-> FALSE, first_name |-> "Bob", last_name |-> "", username |-> ""],
      [id |-> 3, is_bot |-> FALSE, first_name |-> "", last_name |-> "", username |-> ""],
      [id |-> 4, is_bot |-> TRUE, first_name |-> "Helper", last_name |-> "", username |-> "helperbot"] }

\* What get_chat_administrators returns for a chat when it does not raise.
ChatAdmins(c) == {1}

\* ------------------------------------------------------------ DEFAULTS
DEFAULTS ==
    [ only_admins |-> TRUE,
      copy_message |-> FALSE,
      tag_style |-> "empty",
      emoji |-> "[U+1F4E3]",
      chunk_size |-> 8,
      delay_ms |-> 900 ]

ConfigFields == DOMAIN DEFAULTS

\* int(x) of a Python bool, and bool(x) of a stored integer.
IntOfBool(b) == IF b THEN 1 ELSE 0

BoolOfInt(i) == i # 0

\* ------------------------------------------------------------ SQL tables
\* A table is the set of its rows.  chat_config has PRIMARY KEY chat_id,
\* members has PRIMARY KEY (chat_id, user_id).
ConfigRowsOf(table, chat_id) == {r \in table : r.chat_id = chat_id}

\* INSERT INTO chat_config: adds the row (a second row with the key of an
\* existing one would be an IntegrityError; get_config inserts only after
\* it found no row, under the same lock).
InsertConfig(table, row) == table \cup {row}

\* REPLACE INTO chat_config: deletes the rows with the same key, then inserts.
ReplaceConfig(table, row) == (table \ ConfigRowsOf(table, row.chat_id)) \cup {row}

\* The row get_config inserts for a chat without one.
DefaultRow(chat_id) ==
    [ chat_id |-> chat_id,
      only_admins |-> IntOfBool(DEFAULTS.only_admins),
      copy_message |-> IntOfBool(DEFAULTS.copy_message),
      tag_style |-> DEFAULTS.tag_style,
      emoji |-> DEFAULTS.emoji,
      chunk_size |-> DEFAULTS.chunk_size,
      delay_ms |-> DEFAULTS.delay_ms ]

\* The dict get_config builds from a fetched row.
ConfigOfRow(row) ==
    [ only_admins |-> BoolOfInt(row.only_admins),
      copy_message |-> BoolOfInt(row.copy_message),
      tag_style |-> row.tag_style,
      emoji |-> row.emoji,
      chunk_size |-> row.chunk_size,
      delay_ms |-> row.delay_ms ]

\* The row set_config writes for a config dict.
RowOfConfig(chat_id, cfg) ==
    [ chat_id |-> chat_id,
      only_admins |-> IntOfBool(cfg.only_admins),
      copy_message |-> IntOfBool(cfg.copy_message),
      tag_style |-> cfg.tag_style,
      emoji |-> cfg.emoji,
      chunk_size |-> cfg.chunk_size,
      delay_ms |-> cfg.delay_ms ]

\* An update that starts from the defaults instead of the stored config.
UpdateConfigFromDefaults(cfg, kwargs) ==
    [f \in DOMAIN cfg |-> IF f \in DOMAIN kwargs THEN kwargs[f] ELSE DEFAULTS[f]]

\* cfg.update(kwargs): kwargs is a function from some config fields.
UpdateConfig(cfg, kwargs) ==
    [f \in DOMAIN cfg |-> IF f \in DOMAIN kwargs THEN kwargs[f] ELSE cfg[f]]

MemberRowsOf(table, chat_id) == {r \in table : r.chat_id = chat_id}

\* The row upsert_member writes: `x or ""` for the three display fields.
MemberRow(chat_id, user) ==
    [ chat_id |-> chat_id,
      user_id |-> user.id,
      first_name |-> user.first_name,
      last_name |-> user.last_name,
      username |-> user.username ]

\* An insert that leaves an older row of the same key in the table.
InsertMemberKeepOld(table, row) == table \cup {row}

\* REPLACE INTO members.
ReplaceMember(table, row) ==
    {r \in table : ~(r.chat_id = row.chat_id /\ r.user_id = row.user_id)} \cup {row}

\* DELETE FROM members WHERE chat_id=? AND user_id=?.
DeleteMember(table, chat_id, user_id) ==
    {r \in table : ~(r.chat_id = chat_id /\ r.user_id = user_id)}


\* ------------------------------------------------------------- strings
Max(a, b) == IF a >= b THEN a ELSE b

\* One decimal digit, as Python formats it.
Digit(d) == SubSeq("0123456789", d + 1, d + 1)

RECURSIVE NatStr(_)
NatStr(n) == IF n < 10 THEN Digit(n) ELSE NatStr(n \div 10) \o Digit(n % 10)

\* f"{n}" of an int.
IntStr(n) == IF n < 0 THEN "-" \o NatStr(0 - n) ELSE NatStr(n)

RECURSIVE LStrip(_)
LStrip(s) == IF Len(s) > 0 /\ Head(s) = " " THEN LStrip(Tail(s)) ELSE s

RECURSIVE RStrip(_)
RStrip(s) ==
    IF Len(s) > 0 /\ SubSeq(s, Len(s), Len(s)) = " "
    THEN RStrip(SubSeq(s, 1, Len(s) - 1))
    ELSE s

\* str.strip() (of the whitespace the inputs hold: the space).
Strip(s) == RStrip(LStrip(s))

\* sep.join(parts)
RECURSIVE Join(_, _)
Join(sep, parts) ==
    IF Len(parts) = 0 THEN ""
    ELSE IF Len(parts) = 1 THEN parts[1]
    ELSE parts[1] \o sep \o Join(sep, Tail(parts))

\* [x for x in parts if x]
RECURSIVE NonEmpty(_)
NonEmpty(parts) ==
    IF Len(parts) = 0 THEN <<>>
    ELSE IF parts[1] = "" THEN NonEmpty(Tail(parts))
    ELSE <<parts[1]>> \o NonEmpty(Tail(parts))

\* ------------------------------------------------------------- helpers
InvisibleLink(uid) == "<a href=\"tg://user?id=" \o IntStr(uid) \o "\">[U+2063]</a>"

VisibleHandle(row) == IF row.username # "" THEN "@" \o row.username ELSE ""

FullName(row) ==
    LET joined == Strip(Join(" ", NonEmpty(<<row.first_name, row.last_name>>)))
    IN  IF joined # "" THEN joined ELSE "member"

\* A rendering whose "name" style prefers the handle, as the "emoji" style does.
build_mention_text_handle_first(row, style, emoji) ==
    IF style = "emoji" \/ style = "name"
    THEN (IF style = "emoji" THEN emoji \o " " ELSE "")
         \o (IF VisibleHandle(row) # "" THEN VisibleHandle(row) ELSE FullName(row))
         \o InvisibleLink(row.user_id)
    ELSE IF VisibleHandle(row) # ""
    THEN VisibleHandle(row) \o InvisibleLink(row.user_id)
    ELSE InvisibleLink(row.user_id)

build_mention_text(row, style, emoji) ==
    IF style = "emoji"
    THEN emoji \o " "
         \o (IF VisibleHandle(row) # "" THEN VisibleHandle(row) ELSE FullName(row))
         \o InvisibleLink(row.user_id)
    ELSE IF style = "name"
    THEN FullName(row) \o InvisibleLink(row.user_id)
    ELSE IF VisibleHandle(row) # ""
    THEN VisibleHandle(row) \o InvisibleLink(row.user_id)
    ELSE InvisibleLink(row.user_id)

\* The generator's loop: i is the next element of seq, buf the open chunk,
\* out the chunks yielded so far.
RECURSIVE ChunkLoop(_, _, _, _, _)
ChunkLoop(seq, n, i, buf, out) ==
    IF i > Len(seq)
    THEN IF buf # <<>> THEN Append(out, buf) ELSE out
    ELSE IF Len(buf) + 1 >= n
    THEN ChunkLoop(seq, n, i + 1, <<>>, Append(out, Append(buf, seq[i])))
    ELSE ChunkLoop(seq, n, i + 1, Append(buf, seq[i]), out)

\* chunkify with `len(buf) > n` for `len(buf) >= n`.
RECURSIVE ChunkLoopGreater(_, _, _, _, _)
ChunkLoopGreater(seq, n, i, buf, out) ==
    IF i > Len(seq)
    THEN IF buf # <<>> THEN Append(out, buf) ELSE out
    ELSE IF Len(buf) + 1 > n
    THEN ChunkLoopGreater(seq, n, i + 1, <<>>, Append(out, Append(buf, seq[i])))
    ELSE ChunkLoopGreater(seq, n, i + 1, Append(buf, seq[i]), out)

chunkify_greater(seq, n) == ChunkLoopGreater(seq, n, 1, <<>>, <<>>)

chunkify(seq, n) == ChunkLoop(seq, n, 1, <<>>, <<>>)

\* tag_all: the mentions of the snapshot and their chunks.
Mentions(rows, cfg) ==
    [i \in 1..Len(rows) |-> build_mention_text(rows[i], cfg.tag_style, cfg.emoji)]

RunChunks(rows, cfg) == chunkify(Mentions(rows, cfg), Max(1, cfg.chunk_size))

Header(rows, cfg) ==
    (IF cfg.tag_style = "emoji" THEN cfg.emoji ELSE "[U+1F4E3]")
    \o " Tagging everyone... (" \o IntStr(Len(rows)) \o " members known)"

\* A registry that keeps one Event, under the key of chat 1, for all chats.
flag_for_shared(sf, ev, chat_id) ==
    IF sf[1] # 0
    THEN [flag |-> sf[1], stop_flags |-> sf, events |-> ev]
    ELSE [flag |-> Len(ev) + 1,
          stop_flags |-> [sf EXCEPT ![1] = Len(ev) + 1],
          events |-> Append(ev, FALSE)]

\* stop_flags maps a chat to its asyncio.Event (0: no entry); events[e] is
\* whether Event e is set.  flag_for returns the chat's Event and creates
\* it when the chat has none (an Event object is always truthy).
flag_for(sf, ev, chat_id) ==
    IF sf[chat_id] # 0
    THEN [flag |-> sf[chat_id], stop_flags |-> sf, events |-> ev]
    ELSE [flag |-> Len(ev) + 1,
          stop_flags |-> [sf EXCEPT ![chat_id] = Len(ev) + 1],
          events |-> Append(ev, FALSE)]

\* ------------------------------------------------------------ dispatch
\* The message handlers in registration order.  A Command filter matches
\* the message's first word; learn_active_users matches every message of
\* a group or supergroup.
MessageHandlers ==
    << [name |-> "ping", command |-> "ping"],
       [name |-> "learn_active_users", command |-> ""],
       [name |-> "start_cmd", command |-> "start"],
       [name |-> "rollcall", command |-> "rollcall"],
       [name |-> "onlyadmins", command |-> "onlyadmins"],
       [name |-> "noonlyadmins", command |-> "noonlyadmins"],
       [name |-> "copymessage", command |-> "copymessage"],
       [name |-> "nocopymessage", command |-> "nocopymessage"],
       [name |-> "emptytagtype", command |-> "emptytagtype"],
       [name |-> "emojitagtype", command |-> "emojitagtype"],
       [name |-> "nametagtype", command |-> "nametagtype"],
       [name |-> "stopall", command |-> "stopall"],
       [name |-> "tag_all", command |-> "all"] >>

\* The first word of a text.
RECURSIVE FirstWord(_)
FirstWord(text) ==
    IF Len(text) = 0 \/ Head(text) = " " THEN ""
    ELSE Head(text) \o FirstWord(Tail(text))

HandlerMatches(h, chat_type, text) ==
    IF h.name = "learn_active_users"
    THEN chat_type \in {"group", "supergroup"}
    ELSE FirstWord(text) = "/" \o h.command

\* The handler that gets a message: the first whose filter matches.
Dispatch(chat_type, text) ==
    LET hits == {i \in 1..Len(MessageHandlers) :
                    HandlerMatches(MessageHandlers[i], chat_type, text)}
    IN  IF hits = {} THEN "unhandled"
        ELSE MessageHandlers[CHOOSE i \in hits : \A j \in hits : i <= j].name

Texts ==
    { "/ping", "/start", "/rollcall", "/onlyadmins", "/noonlyadmins", "/copymessage",
      "/nocopymessage", "/emptytagtype", "/emojitagtype", "/nametagtype", "/stopall",
      "/all", "hello" }

\* The texts that reach each handler in each chat.
TextsOf ==
    [c \in Chats |->
        [h \in {MessageHandlers[i].name : i \in 1..Len(MessageHandlers)} \cup {"unhandled"} |->
            {text \in Texts : Dispatch(ChatTypeOf(c), text) = h}]]

HandlerOf(c, text) == CHOOSE h \in DOMAIN TextsOf[c] : text \in TextsOf[c][h]

\* --------------------------------------------------------------- state
VARIABLES
    chat_config,   \* table chat_config: a set of rows
    members,       \* table members: a set of rows
    DB_LOCK,       \* the asyncio.Lock: its holder (0: none) and its waiters
    stop_flags,    \* chat -> its Event (index into events), 0: no entry
    events,        \* the asyncio.Event objects created so far: set or not
    pc,            \* task -> the await a handler task is suspended at
    loc,           \* task -> the handler's local variables and what it sent
    last_reply,    \* what the last single-step handler answered
    nev,           \* handler invocations started so far
    stops,         \* history: the /stopall commands handled so far
    probe          \* the argument and result of a helper applied on its own

vars ==
    <<chat_config, members, DB_LOCK, stop_flags, events, pc, loc, last_reply, nev,
      stops, probe>>

NoRow == [chat_id |-> 0]

\* DB_LOCK.  acquire() takes a lock that is free and has no waiters without
\* suspending, and otherwise queues the task; release() hands the lock to
\* the first waiter, so that a task that asks for the lock before that
\* waiter has run queues behind it.
Unlocked == [holder |-> 0, waiters |-> <<>>]

Acquire(lock, t) ==
    IF lock.holder = 0 /\ lock.waiters = <<>>
    THEN [holder |-> t, waiters |-> <<>>]
    ELSE [lock EXCEPT !.waiters = Append(@, t)]

Release(lock) ==
    IF lock.waiters = <<>>
    THEN Unlocked
    ELSE [holder |-> Head(lock.waiters), waiters |-> Tail(lock.waiters)]

NoKwargs == [f \in {} |-> 0]

\* A task before its handler has assigned anything.  writes is the record
\* of the handler's commits to chat_config: for each, the Config Store
\* call the handler made that committed it ("get_config", or "set_config"
\* also for the commit of the get_config inside set_config).
FreshLocals ==
    [ handler |-> "", chat_id |-> 0, user_id |-> 0, is_reply |-> FALSE,
      ret |-> "", kwargs |-> NoKwargs, row |-> NoRow, cfg |-> DEFAULTS,
      rows |-> <<>>, chunks |-> <<>>, idx |-> 0, flag |-> 0, replied |-> FALSE,
      out |-> <<>>, stops0 |-> 0, writes |-> <<>> ]

\* One outbound call of a handler: a notice (denied, empty, header, stopped,
\* done, ack), a chunk send (send, reply_send, fallback), a duplication
\* (copy) or a pacing delay (sleep); idx is the chunk it belongs to, ok
\* whether the call returned without raising.
Entry(kind, idx, text, ok) == [kind |-> kind, idx |-> idx, text |-> text, ok |-> ok]

Free(t) == pc[t] = "idle"

\* The handler of task t has returned ("done") or was left by an exception
\* ("failed").
Finished(t) == pc[t] \in {"done", "failed"}

\* The task object a new multi-step handler runs as: tasks are
\* interchangeable, the free one with the lowest number is taken (0: none).
FreeTask ==
    IF \E t \in Tasks : Free(t)
    THEN CHOOSE t \in Tasks : Free(t) /\ \A o \in Tasks : Free(o) => t <= o
    ELSE 0

\* The databases a process can find at DB_PATH when it starts: no config
\* row, or the row of chat 1 with a stored chunk_size of 0 and copy_message
\* on; no roster, or accounts 1 and 2 learned in chat 1.
InitConfigs ==
    { {}, {[DefaultRow(1) EXCEPT !.chunk_size = 0, !.copy_message = 1]} }

Person(id) == CHOOSE u \in People : u.id = id /\ (u.id = 1 => u.username = "alice")

InitMembers ==
    { {}, {MemberRow(1, Person(1)), MemberRow(1, Person(2))} }

NoProbe == [op |-> "none"]

Init ==
    /\ chat_config \in InitConfigs
    /\ members \in InitMembers
    /\ DB_LOCK = Unlocked
    /\ stop_flags = [c \in Chats |-> 0]
    /\ events = <<>>
    /\ pc = [t \in Tasks |-> "idle"]
    /\ loc = [t \in Tasks |-> FreshLocals]
    /\ last_reply = [handler |-> "", chat_id |-> 0, text |-> ""]
    /\ nev = 0
    /\ stops = 0
    /\ probe = NoProbe

\* ------------------------------------------------- single-step handlers
Reply(handler, chat_id, text) == [handler |-> handler, chat_id |-> chat_id, text |-> text]

\* ping: one reply.
Ping(c, text) ==
    /\ text \in TextsOf[c]["ping"]
    /\ last_reply' = Reply("ping", c, "pong")
    /\ nev' = nev + 1
    /\ UNCHANGED <<chat_config, members, DB_LOCK, stop_flags, events, pc, loc, stops, probe>>

\* learn_active_users: upsert the sender unless it is a bot.  upsert_member
\* is one statement under DB_LOCK; the single-step handlers that use the
\* lock are taken at the moment they get it.
LearnActiveUsers(c, text, u) ==
    /\ text \in TextsOf[c]["learn_active_users"]
    /\ DB_LOCK.holder = 0
    /\ members' = IF ~u.is_bot THEN ReplaceMember(members, MemberRow(c, u)) ELSE members
    /\ nev' = nev + 1
    /\ UNCHANGED <<chat_config, DB_LOCK, stop_flags, events, pc, loc, last_reply, stops, probe>>

\* member_updates: upsert on member/administrator/creator, delete on
\* left/kicked, nothing on the other statuses (restricted).
MemberStatuses == {"member", "administrator", "creator", "restricted", "left", "kicked"}

MemberUpdates(c, u, status) ==
    /\ DB_LOCK.holder = 0
    /\ members' =
          IF status \in {"member", "administrator", "creator"}
          THEN ReplaceMember(members, MemberRow(c, u))
          ELSE IF status \in {"left", "kicked"}
          THEN DeleteMember(members, c, u.id)
          ELSE members
    /\ nev' = nev + 1
    /\ UNCHANGED <<chat_config, DB_LOCK, stop_flags, events, pc, loc, last_reply, stops, probe>>

\* start_cmd: one answer.
StartCmd(c, text) ==
    /\ text \in TextsOf[c]["start_cmd"]
    /\ last_reply' = Reply("start_cmd", c, "Bot is online.")
    /\ nev' = nev + 1
    /\ UNCHANGED <<chat_config, members, DB_LOCK, stop_flags, events, pc, loc, stops, probe>>

\* rollcall: the button with callback data roll:<chat id>, in groups only.
Rollcall(c, text) ==
    /\ text \in TextsOf[c]["rollcall"]
    /\ last_reply' =
          IF ChatTypeOf(c) \notin {"group", "supergroup"}
          THEN Reply("rollcall", c, "Use /rollcall inside a group.")
          ELSE Reply("rollcall", c, "button roll:" \o IntStr(c))
    /\ nev' = nev + 1
    /\ UNCHANGED <<chat_config, members, DB_LOCK, stop_flags, events, pc, loc, stops, probe>>

\* str.split(sep) for a one-character separator.
RECURSIVE SplitLoop(_, _, _, _)
SplitLoop(s, sep, cur, out) ==
    IF Len(s) = 0 THEN Append(out, cur)
    ELSE IF Head(s) = sep THEN SplitLoop(Tail(s), sep, "", Append(out, cur))
    ELSE SplitLoop(Tail(s), sep, cur \o Head(s), out)

Split(s, sep) == SplitLoop(s, sep, "", <<>>)

DigitValue(ch) == CHOOSE d \in 0..9 : Digit(d) = ch

IsDigits(s) == Len(s) > 0 /\ \A i \in 1..Len(s) : \E d \in 0..9 : Digit(d) = SubSeq(s, i, i)

RECURSIVE DigitsValue(_)
DigitsValue(s) ==
    IF Len(s) = 0 THEN 0
    ELSE 10 * DigitsValue(SubSeq(s, 1, Len(s) - 1)) + DigitValue(SubSeq(s, Len(s), Len(s)))

\* int(s) of a decimal with an optional sign; ok is FALSE where it raises.
ParseInt(s) ==
    IF IsDigits(s) THEN [ok |-> TRUE, value |-> DigitsValue(s)]
    ELSE IF Len(s) > 1 /\ Head(s) = "-" /\ IsDigits(Tail(s))
    THEN [ok |-> TRUE, value |-> 0 - DigitsValue(Tail(s))]
    ELSE [ok |-> FALSE, value |-> 0]

\* The callback data the roll: filter lets through: the buttons the bot
\* sent for a chat, and two strings the parse in roll_press rejects.
CallbackDatas == {"roll:" \o IntStr(c) : c \in Chats} \cup {"roll:", "roll:1:2"}

\* roll_press: `_, chat_id_str = cb.data.split(":")`, int(chat_id_str);
\* any exception answers "Oops"; otherwise the presser is upserted.
RollPress(data, u) ==
    /\ DB_LOCK.holder = 0
    /\ SubSeq(data, 1, 5) = "roll:"
    /\ LET parts == Split(data, ":")
           parsed == IF Len(parts) = 2 THEN ParseInt(parts[2]) ELSE [ok |-> FALSE, value |-> 0]
       IN  IF ~parsed.ok
           THEN /\ last_reply' = Reply("roll_press", 0, "Oops. Try /rollcall again.")
                /\ UNCHANGED members
           ELSE /\ members' =
                      IF ~u.is_bot
                      THEN ReplaceMember(members, MemberRow(parsed.value, u))
                      ELSE members
                /\ last_reply' = Reply("roll_press", parsed.value, "Marked you present!")
    /\ nev' = nev + 1
    /\ UNCHANGED <<chat_config, DB_LOCK, stop_flags, events, pc, loc, stops, probe>>

\* stopall: flag_for(chat).set(), then the acknowledgment.
Stopall(c, text) ==
    /\ text \in TextsOf[c]["stopall"]
    /\ LET f == flag_for(stop_flags, events, c)
       IN  /\ stop_flags' = f.stop_flags
           /\ events' = [f.events EXCEPT ![f.flag] = TRUE]
    /\ last_reply' = Reply("stopall", c, "Stopping current tag run (if any).")
    /\ nev' = nev + 1
    /\ stops' = stops + 1
    /\ UNCHANGED <<chat_config, members, DB_LOCK, pc, loc, probe>>

\* A message no handler's filter matches is dropped.
Unhandled(c, text) ==
    /\ text \in TextsOf[c]["unhandled"]
    /\ nev' = nev + 1
    /\ UNCHANGED <<chat_config, members, DB_LOCK, stop_flags, events, pc, loc, last_reply,
                   stops, probe>>

\* ------------------------------------------------------ get_config
\* Every multi-step handler starts with get_config: it is entered here, and
\* asks for DB_LOCK.
Enter(t, handler, c, u, is_reply, ret, kwargs) ==
    /\ DB_LOCK' = Acquire(DB_LOCK, t)
    /\ pc' = [pc EXCEPT ![t] = "gc_select"]
    /\ loc' = [loc EXCEPT ![t] =
                  [FreshLocals EXCEPT !.handler = handler, !.chat_id = c, !.user_id = u.id,
                                      !.is_reply = is_reply, !.ret = ret, !.kwargs = kwargs]]

\* get_config, first half: with DB_LOCK, SELECT the chat's row.
GetConfigSelect(t) ==
    /\ pc[t] = "gc_select"
    /\ DB_LOCK.holder = t
    /\ \E row \in (IF ConfigRowsOf(chat_config, loc[t].chat_id) = {}
                   THEN {NoRow}
                   ELSE ConfigRowsOf(chat_config, loc[t].chat_id)) :
          loc' = [loc EXCEPT ![t].row = row]
    /\ pc' = [pc EXCEPT ![t] = "gc_return"]
    /\ UNCHANGED <<chat_config, members, DB_LOCK, stop_flags, events, last_reply, nev, stops, probe>>

\* What get_config returns for the row it fetched.
GetConfigResult(row) == IF row = NoRow THEN DEFAULTS ELSE ConfigOfRow(row)

\* get_config that returns the defaults without inserting them.
GetConfigTableNoInsert(table, chat_id, row) == table

\* What get_config leaves in the table: the defaults are inserted when no
\* row was found.
GetConfigTable(table, chat_id, row) ==
    IF row = NoRow THEN InsertConfig(table, DefaultRow(chat_id)) ELSE table

\* The kwargs of the settings commands.
SettingsKwargs(handler) ==
    CASE handler = "onlyadmins" -> [only_admins |-> TRUE]
      [] handler = "noonlyadmins" -> [only_admins |-> FALSE]
      [] handler = "copymessage" -> [copy_message |-> TRUE]
      [] handler = "nocopymessage" -> [copy_message |-> FALSE]
      [] handler = "emptytagtype" -> [tag_style |-> "empty"]
      [] handler = "nametagtype" -> [tag_style |-> "name"]
      [] OTHER -> NoKwargs

SettingsHandlers ==
    { "onlyadmins", "noonlyadmins", "copymessage", "nocopymessage", "emptytagtype",
      "emojitagtype", "nametagtype" }

\* get_config, second half: insert the defaults if there was no row, leave
\* the lock and return to the caller, which runs on to its next await:
\*   tag_all       asks for the administrators if only_admins, else asks
\*                 for the lock again (list_members);
\*   set_config    updates its copy and asks for the lock again;
\*   emojitagtype  calls set_config(tag_style="emoji", emoji=cfg["emoji"]),
\*                 which starts with another get_config.
GetConfigReturn(t) ==
    /\ pc[t] = "gc_return"
    /\ DB_LOCK.holder = t
    /\ chat_config' = GetConfigTable(chat_config, loc[t].chat_id, loc[t].row)
    /\ LET cfg == GetConfigResult(loc[t].row)
           call == IF loc[t].ret = "set_config" THEN "set_config" ELSE "get_config"
           writes == IF GetConfigTable(chat_config, loc[t].chat_id, loc[t].row) # chat_config
                     THEN Append(loc[t].writes, call)
                     ELSE loc[t].writes
       IN  CASE loc[t].ret = "tag_all" ->
                  /\ loc' = [loc EXCEPT ![t].cfg = cfg, ![t].writes = writes]
                  /\ pc' = [pc EXCEPT ![t] = IF cfg.only_admins THEN "admin" ELSE "list"]
                  /\ DB_LOCK' = IF cfg.only_admins
                                THEN Release(DB_LOCK)
                                ELSE Acquire(Release(DB_LOCK), t)
             [] loc[t].ret = "set_config" ->
                  /\ loc' = [loc EXCEPT ![t].cfg = UpdateConfig(cfg, loc[t].kwargs),
                                        ![t].writes = writes]
                  /\ pc' = [pc EXCEPT ![t] = "sc_write"]
                  /\ DB_LOCK' = Acquire(Release(DB_LOCK), t)
             [] loc[t].ret = "emojitagtype" ->
                  /\ loc' = [loc EXCEPT ![t].cfg = cfg,
                                        ![t].writes = writes,
                                        ![t].ret = "set_config",
                                        ![t].kwargs = [tag_style |-> "emoji", emoji |-> cfg.emoji]]
                  /\ pc' = [pc EXCEPT ![t] = "gc_select"]
                  /\ DB_LOCK' = Acquire(Release(DB_LOCK), t)
    /\ UNCHANGED <<members, stop_flags, events, last_reply, nev, stops, probe>>

\* ------------------------------------------------------ set_config
\* A settings command arrives: set_config(chat, **kwargs) begins.
SettingsCommand(t, c, text, u) ==
    /\ t = FreeTask
    /\ HandlerOf(c, text) \in SettingsHandlers
    /\ LET h == HandlerOf(c, text)
       IN  Enter(t, h, c, u, FALSE,
                 IF h = "emojitagtype" THEN "emojitagtype" ELSE "set_config",
                 SettingsKwargs(h))
    /\ nev' = nev + 1
    /\ UNCHANGED <<chat_config, members, stop_flags, events, last_reply, stops, probe>>

\* set_config, the write: with DB_LOCK, REPLACE the whole row with the
\* updated copy, commit, leave the lock; the handler then replies.
SetConfigWrite(t) ==
    /\ pc[t] = "sc_write"
    /\ DB_LOCK.holder = t
    /\ DB_LOCK' = Release(DB_LOCK)
    /\ chat_config' = ReplaceConfig(chat_config, RowOfConfig(loc[t].chat_id, loc[t].cfg))
    /\ loc' = [loc EXCEPT ![t].out = Append(@, Entry("ack", 0, loc[t].handler, TRUE)),
                          ![t].writes = Append(@, "set_config")]
    /\ pc' = [pc EXCEPT ![t] = "done"]
    /\ UNCHANGED <<members, stop_flags, events, last_reply, nev, stops, probe>>

\* --------------------------------------------------------- tag_all
\* /all arrives: tag_all begins with get_config(chat_id).
TagAllStart(t, c, text, u, is_reply) ==
    /\ t = FreeTask
    /\ text \in TextsOf[c]["tag_all"]
    /\ Enter(t, "tag_all", c, u, is_reply, "tag_all", NoKwargs)
    /\ nev' = nev + 1
    /\ UNCHANGED <<chat_config, members, stop_flags, events, last_reply, stops, probe>>

\* is_admin whose except branch returns True.
is_admin_fail_open(lookup_ok, chat_id, user_id) == ~lookup_ok \/ user_id \in ChatAdmins(chat_id)

\* is_admin: whether the user is among the chat's administrators; an
\* exception of the lookup counts as "no".
is_admin(lookup_ok, chat_id, user_id) == lookup_ok /\ user_id \in ChatAdmins(chat_id)

\* The administrator lookup returns (or raises): a user who is no admin
\* gets the denial and the handler returns, an admin goes on to
\* list_members and asks for DB_LOCK.
AdminResult(t, lookup_ok) ==
    /\ pc[t] = "admin"
    /\ LET looked == Append(loc[t].out, Entry("get_chat_administrators", 0, "", lookup_ok))
       IN  IF ~is_admin(lookup_ok, loc[t].chat_id, loc[t].user_id)
           THEN /\ loc' = [loc EXCEPT ![t].out =
                              Append(looked, Entry("denied", 0, "Only admins can use /all here.", TRUE))]
                /\ pc' = [pc EXCEPT ![t] = "done"]
                /\ UNCHANGED DB_LOCK
           ELSE /\ loc' = [loc EXCEPT ![t].out = looked]
                /\ pc' = [pc EXCEPT ![t] = "list"]
                /\ DB_LOCK' = Acquire(DB_LOCK, t)
    /\ UNCHANGED <<chat_config, members, stop_flags, events, last_reply, nev, stops, probe>>

\* The orders in which SELECT * FROM members WHERE chat_id=? can return the
\* rows: SQL promises none.
RECURSIVE Orderings(_)
Orderings(S) ==
    IF S = {} THEN {<<>>}
    ELSE UNION { { <<r>> \o rest : rest \in Orderings(S \ {r}) } : r \in S }

list_members(table, chat_id) == Orderings(MemberRowsOf(table, chat_id))

\* tag_all without the `if not rows` return.
RosterEmptyNever(rows) == FALSE

\* `if not rows`
RosterEmpty(rows) == rows = <<>>

\* list_members returns the snapshot and leaves the lock.  Without rows: the guidance, return.
\* With rows: flag_for(chat).clear(), the mentions and their chunks, the
\* header, whether a replied message is to be copied; the task is then
\* suspended in the header's reply.
ListMembers(t) ==
    /\ pc[t] = "list"
    /\ DB_LOCK.holder = t
    /\ DB_LOCK' = Release(DB_LOCK)
    /\ \E rows \in list_members(members, loc[t].chat_id) :
          IF RosterEmpty(rows)
          THEN /\ loc' = [loc EXCEPT ![t].out =
                             Append(@, Entry("empty", 0, "I don't know anyone here yet.", TRUE))]
               /\ pc' = [pc EXCEPT ![t] = "done"]
               /\ UNCHANGED <<stop_flags, events>>
          ELSE LET f == flag_for(stop_flags, events, loc[t].chat_id)
               IN  /\ stop_flags' = f.stop_flags
                   /\ events' = [f.events EXCEPT ![f.flag] = FALSE]
                   /\ loc' = [loc EXCEPT
                                 ![t].rows = rows,
                                 ![t].flag = f.flag,
                                 ![t].chunks = RunChunks(rows, loc[t].cfg),
                                 ![t].idx = 1,
                                 ![t].stops0 = stops,
                                 ![t].replied = loc[t].cfg.copy_message /\ loc[t].is_reply,
                                 ![t].out = Append(@, Entry("header", 0, Header(rows, loc[t].cfg), TRUE))]
                   /\ pc' = [pc EXCEPT ![t] = "loop"]
    /\ UNCHANGED <<chat_config, members, last_reply, nev, stops, probe>>

\* A chunk body rendered from the members table as it is when the chunk is
\* sent, instead of from the snapshot.
LiveChunkText(t) ==
    LET live == CHOOSE o \in list_members(members, loc[t].chat_id) : TRUE
        chunks == RunChunks(live, loc[t].cfg)
    IN  IF loc[t].idx <= Len(chunks) THEN Join(" ", chunks[loc[t].idx]) ELSE ""

\* The body of the chunk the task is at.
ChunkText(t) == Join(" ", loc[t].chunks[loc[t].idx])

\* A loop that never looks at the flag.
StopsAtNever(flag_set) == FALSE

\* Whether the loop stops at a chunk boundary where the flag is set.
StopsAt(flag_set) == flag_set

\* The task resumes (after the header, or after a chunk's sleep) at the top
\* of the loop.  No chunk left: `if not flag.is_set()` decides on "Done" and
\* the handler returns.  A chunk left and the flag set: "Stopped" is
\* answered, the task is suspended in that answer.  Otherwise the chunk's
\* first call is made: copy_to with a replied message, send_message without.
LoopStep(t) ==
    /\ pc[t] = "loop"
    /\ IF loc[t].idx > Len(loc[t].chunks)
       THEN /\ loc' = [loc EXCEPT ![t].out =
                          IF ~events[loc[t].flag]
                          THEN Append(@, Entry("done", 0, "Done.", TRUE))
                          ELSE @]
            /\ pc' = [pc EXCEPT ![t] = "done"]
       ELSE IF StopsAt(events[loc[t].flag])
       THEN /\ loc' = [loc EXCEPT ![t].out =
                          Append(@, Entry("stopped", loc[t].idx, "Stopped.", TRUE))]
            /\ pc' = [pc EXCEPT ![t] = "stopped"]
       ELSE /\ pc' = [pc EXCEPT ![t] = IF loc[t].replied THEN "copy" ELSE "send"]
            /\ UNCHANGED loc
    /\ UNCHANGED <<chat_config, members, DB_LOCK, stop_flags, events, last_reply, nev, stops, probe>>

\* The "Stopped" answer returns, the loop is left by break, and
\* `if not flag.is_set()` is evaluated on the flag as it is now.
AfterStopped(t) ==
    /\ pc[t] = "stopped"
    /\ loc' = [loc EXCEPT ![t].out =
                  IF ~events[loc[t].flag]
                  THEN Append(@, Entry("done", 0, "Done.", TRUE))
                  ELSE @]
    /\ pc' = [pc EXCEPT ![t] = "done"]
    /\ UNCHANGED <<chat_config, members, DB_LOCK, stop_flags, events, last_reply, nev, stops, probe>>

\* A chunk has been sent: asyncio.sleep(delay_ms / 1000) is called, and the
\* task resumes at the top of the loop with the next chunk.
Sent(t, kind) ==
    /\ loc' = [loc EXCEPT
                  ![t].out = Append(Append(@, Entry(kind, loc[t].idx, ChunkText(t), TRUE)),
                                    Entry("sleep", loc[t].idx, IntStr(loc[t].cfg.delay_ms), TRUE)),
                  ![t].idx = @ + 1]
    /\ pc' = [pc EXCEPT ![t] = "loop"]

\* An exception nothing catches leaves the handler.
Raised(t, kind) ==
    /\ loc' = [loc EXCEPT ![t].out = Append(@, Entry(kind, loc[t].idx, ChunkText(t), FALSE))]
    /\ pc' = [pc EXCEPT ![t] = "failed"]

\* bot.send_message of a chunk without a replied message returns or raises.
SendResult(t, ok) ==
    /\ pc[t] = "send"
    /\ IF ok THEN Sent(t, "send") ELSE Raised(t, "send")
    /\ UNCHANGED <<chat_config, members, DB_LOCK, stop_flags, events, last_reply, nev, stops, probe>>

\* replied.copy_to returns (the anchored send_message is called) or raises
\* (the except branch calls the plain send_message).
CopyResult(t, ok) ==
    /\ pc[t] = "copy"
    /\ loc' = [loc EXCEPT ![t].out = Append(@, Entry("copy", loc[t].idx, "", ok))]
    /\ pc' = [pc EXCEPT ![t] = IF ok THEN "reply_send" ELSE "fallback"]
    /\ UNCHANGED <<chat_config, members, DB_LOCK, stop_flags, events, last_reply, nev, stops, probe>>

\* The anchored send_message returns or raises into the except branch.
ReplySendResult(t, ok) ==
    /\ pc[t] = "reply_send"
    /\ IF ok
       THEN Sent(t, "reply_send")
       ELSE /\ loc' = [loc EXCEPT ![t].out =
                          Append(@, Entry("reply_send", loc[t].idx, ChunkText(t), FALSE))]
            /\ pc' = [pc EXCEPT ![t] = "fallback"]
    /\ UNCHANGED <<chat_config, members, DB_LOCK, stop_flags, events, last_reply, nev, stops, probe>>

\* The plain send_message of the except branch returns or raises.
FallbackResult(t, ok) ==
    /\ pc[t] = "fallback"
    /\ IF ok THEN Sent(t, "fallback") ELSE Raised(t, "fallback")
    /\ UNCHANGED <<chat_config, members, DB_LOCK, stop_flags, events, last_reply, nev, stops, probe>>

\* A finished handler's task ends before the event loop runs anything
\* else: its locals are gone.
Return(t) ==
    /\ Finished(t)
    /\ pc' = [pc EXCEPT ![t] = "idle"]
    /\ loc' = [loc EXCEPT ![t] = FreshLocals]
    /\ UNCHANGED <<chat_config, members, DB_LOCK, stop_flags, events, last_reply, nev, stops, probe>>

\* ------------------------------------------------------ specifications
NoneFinished == \A t \in Tasks : ~Finished(t)

\* An update arrives and its handler starts.
Arrive(A) == NoneFinished /\ nev < MaxEvents /\ A

\* A task that is under way resumes.
Resume(A) == NoneFinished /\ A

\* The senders of /all: an administrator (account 1) and another user.
Callers == {Person(1), Person(2)}

\* The accounts whose membership changes: account 1 under its new name,
\* account 2.
Movers == {u \in People : (u.id = 1 /\ u.username = "") \/ u.id = 2}

\* The run controller on chat 1: /all, /stopall and membership changes
\* before and while runs are under way.
Next ==
    \/ \E t \in Tasks : Return(t)
    \/ \E t \in Tasks, u \in Callers, is_reply \in BOOLEAN :
          Arrive(TagAllStart(t, 1, "/all", u, is_reply))
    \/ Arrive(Stopall(1, "/stopall"))
    \/ \E u \in Movers, status \in {"member", "left"} : Arrive(MemberUpdates(1, u, status))
    \/ \E t \in Tasks : Resume(GetConfigSelect(t))
    \/ \E t \in Tasks : Resume(GetConfigReturn(t))
    \/ \E t \in Tasks, lookup_ok \in BOOLEAN : Resume(AdminResult(t, lookup_ok))
    \/ \E t \in Tasks : Resume(ListMembers(t))
    \/ \E t \in Tasks : Resume(LoopStep(t))
    \/ \E t \in Tasks : Resume(AfterStopped(t))
    \/ \E t \in Tasks, ok \in BOOLEAN : Resume(SendResult(t, ok))
    \/ \E t \in Tasks, ok \in BOOLEAN : Resume(CopyResult(t, ok))
    \/ \E t \in Tasks, ok \in BOOLEAN : Resume(ReplySendResult(t, ok))
    \/ \E t \in Tasks, ok \in BOOLEAN : Resume(FallbackResult(t, ok))

Spec == Init /\ [][Next]_vars

\* The config store on chat 1: the settings commands, two at a time.  The
\* finished tasks keep their locals until their slot is taken again.
SettingsTexts ==
    { "/onlyadmins", "/noonlyadmins", "/copymessage", "/nocopymessage", "/emptytagtype",
      "/emojitagtype", "/nametagtype" }

NextConfig ==
    \/ \E t \in Tasks : Return(t)
    \/ \E t \in Tasks, text \in SettingsTexts :
          nev < MaxEvents /\ SettingsCommand(t, 1, text, Person(1))
    \/ \E t \in Tasks : GetConfigSelect(t)
    \/ \E t \in Tasks : GetConfigReturn(t)
    \/ \E t \in Tasks : SetConfigWrite(t)

SpecConfig == Init /\ [][NextConfig]_vars

\* The config store on chat 1 with one settings command at a time: a
\* command arrives when no handler is under way.
NextSerial ==
    \/ \E t \in Tasks : Return(t)
    \/ \E t \in Tasks, text \in SettingsTexts :
          /\ nev < MaxEvents
          /\ \A o \in Tasks : Free(o)
          /\ SettingsCommand(t, 1, text, Person(1))
    \/ \E t \in Tasks : GetConfigSelect(t)
    \/ \E t \in Tasks : GetConfigReturn(t)
    \/ \E t \in Tasks : SetConfigWrite(t)

SpecSerial == Init /\ [][NextSerial]_vars

\* Two chats: /all from the administrator and /stopall in the private
\* chats 1 and 2, and account 2 joining chat 2, before and while runs are
\* under way.
NextTwoChats ==
    \/ \E t \in Tasks : Return(t)
    \/ \E t \in Tasks, c \in {1, 2} : Arrive(TagAllStart(t, c, "/all", Person(1), FALSE))
    \/ \E c \in {1, 2} : Arrive(Stopall(c, "/stopall"))
    \/ Arrive(MemberUpdates(2, Person(2), "member"))
    \/ \E t \in Tasks : Resume(GetConfigSelect(t))
    \/ \E t \in Tasks : Resume(GetConfigReturn(t))
    \/ \E t \in Tasks, lookup_ok \in BOOLEAN : Resume(AdminResult(t, lookup_ok))
    \/ \E t \in Tasks : Resume(ListMembers(t))
    \/ \E t \in Tasks : Resume(LoopStep(t))
    \/ \E t \in Tasks : Resume(AfterStopped(t))
    \/ \E t \in Tasks, ok \in BOOLEAN : Resume(SendResult(t, ok))

SpecTwoChats == Init /\ [][NextTwoChats]_vars

\* The dispatcher: a script of MaxMessages messages, each any of Texts from
\* the administrator (account 1) or the bot account 4, in the private chat
\* 1 or the supergroup 3 and each a reply to another message, goes through
\* the message handlers; the handlers that are started run on.
MaxMessages == 2

Messages ==
    { [chat |-> c, text |-> text, user |-> u, is_reply |-> r] :
        c \in {1, 3}, text \in Texts, u \in {Person(1), Person(4)}, r \in {TRUE} }

InitDispatch ==
    /\ chat_config \in InitConfigs
    /\ members \in InitMembers
    /\ DB_LOCK = Unlocked
    /\ stop_flags = [c \in Chats |-> 0]
    /\ events = <<>>
    /\ pc = [t \in Tasks |-> "idle"]
    /\ loc = [t \in Tasks |-> FreshLocals]
    /\ last_reply = [handler |-> "", chat_id |-> 0, text |-> ""]
    /\ nev = 0
    /\ stops = 0
    /\ \E msgs \in [1..MaxMessages -> Messages] : probe = [op |-> "messages", msgs |-> msgs]

\* The next message of the script.
Msg == probe.msgs[nev + 1]

\* The next message of the script arrives and its handler starts.
Deliver(A) == NoneFinished /\ probe.op = "messages" /\ nev < Len(probe.msgs) /\ A

NextDispatch ==
    \/ \E t \in Tasks : Return(t)
    \/ Deliver(Ping(Msg.chat, Msg.text))
    \/ Deliver(LearnActiveUsers(Msg.chat, Msg.text, Msg.user))
    \/ Deliver(StartCmd(Msg.chat, Msg.text))
    \/ Deliver(Rollcall(Msg.chat, Msg.text))
    \/ \E t \in Tasks : Deliver(SettingsCommand(t, Msg.chat, Msg.text, Msg.user))
    \/ Deliver(Stopall(Msg.chat, Msg.text))
    \/ \E t \in Tasks : Deliver(TagAllStart(t, Msg.chat, Msg.text, Msg.user, Msg.is_reply))
    \/ Deliver(Unhandled(Msg.chat, Msg.text))
    \/ \E t \in Tasks : Resume(GetConfigSelect(t))
    \/ \E t \in Tasks : Resume(GetConfigReturn(t))
    \/ \E t \in Tasks : Resume(SetConfigWrite(t))
    \/ \E t \in Tasks, lookup_ok \in BOOLEAN : Resume(AdminResult(t, lookup_ok))
    \/ \E t \in Tasks : Resume(ListMembers(t))
    \/ \E t \in Tasks : Resume(LoopStep(t))
    \/ \E t \in Tasks : Resume(AfterStopped(t))
    \/ \E t \in Tasks, ok \in BOOLEAN : Resume(SendResult(t, ok))
    \/ \E t \in Tasks, ok \in BOOLEAN : Resume(CopyResult(t, ok))
    \/ \E t \in Tasks, ok \in BOOLEAN : Resume(ReplySendResult(t, ok))
    \/ \E t \in Tasks, ok \in BOOLEAN : Resume(FallbackResult(t, ok))

SpecDispatch == InitDispatch /\ [][NextDispatch]_vars

\* The roster store on chat 1: a script of up to MaxOps membership updates
\* of accounts 1 (under both of its names) and 2, handled one after another.
MaxOps == 3

RosterOps == {[user |-> u, status |-> st] : u \in {x \in People : x.id \in {1, 2}}, st \in MemberStatuses}

RECURSIVE Scripts(_)
Scripts(k) ==
    IF k = 0 THEN {<<>>}
    ELSE {Append(sc, op) : sc \in Scripts(k - 1), op \in RosterOps}

InitRoster ==
    /\ chat_config = {}
    /\ members \in InitMembers
    /\ DB_LOCK = Unlocked
    /\ stop_flags = [c \in Chats |-> 0]
    /\ events = <<>>
    /\ pc = [t \in Tasks |-> "idle"]
    /\ loc = [t \in Tasks |-> FreshLocals]
    /\ last_reply = [handler |-> "", chat_id |-> 0, text |-> ""]
    /\ nev = 0
    /\ stops = 0
    /\ \E sc \in Scripts(MaxOps) : probe = [op |-> "roster", chat |-> 1, ops |-> sc]

NextRoster ==
    /\ probe.op = "roster"
    /\ nev < Len(probe.ops)
    /\ MemberUpdates(probe.chat, probe.ops[nev + 1].user, probe.ops[nev + 1].status)

SpecRoster == InitRoster /\ [][NextRoster]_vars

\* build_mention_text on its own: every member row over a few first names,
\* last names (some with surrounding spaces), usernames and ids, in the
\* three tag styles.
RenderRows ==
    { [chat_id |-> 1, user_id |-> uid, first_name |-> fn, last_name |-> ln, username |-> un] :
        uid \in {1, 12}, fn \in {"", "Al", " "}, ln \in {"", "Ice", "Ice "},
        un \in {"", "alice"} }

TagStyles == {"empty", "emoji", "name"}

InitRender ==
    /\ chat_config = {}
    /\ members = {}
    /\ DB_LOCK = Unlocked
    /\ stop_flags = [c \in Chats |-> 0]
    /\ events = <<>>
    /\ pc = [t \in Tasks |-> "idle"]
    /\ loc = [t \in Tasks |-> FreshLocals]
    /\ last_reply = [handler |-> "", chat_id |-> 0, text |-> ""]
    /\ nev = 0
    /\ stops = 0
    /\ \E row \in RenderRows, style \in TagStyles, emoji \in {DEFAULTS.emoji, "*"} :
          probe = [op |-> "render", row |-> row, style |-> style, emoji |-> emoji,
                   text |-> "", done |-> FALSE]

\* tag_all's  build_mention_text(r, cfg["tag_style"], cfg["emoji"])
ApplyRender ==
    /\ probe.op = "render"
    /\ ~probe.done
    /\ probe' = [probe EXCEPT !.text = build_mention_text(probe.row, probe.style, probe.emoji),
                              !.done = TRUE]
    /\ UNCHANGED <<chat_config, members, DB_LOCK, stop_flags, events, pc, loc, last_reply,
                   nev, stops>>

NextRender == ApplyRender

SpecRender == InitRender /\ [][NextRender]_vars

\* chunkify on its own: tag_all's chunks for every roster of up to
\* MaxRoster accounts and every stored chunk_size of ProbeChunkSizes.
MaxRoster == 3

ProbeChunkSizes == {0 - 1, 0, 1, 2, 3, 4, 8}

RECURSIVE Rosters(_)
Rosters(k) ==
    IF k = 0 THEN {<<>>}
    ELSE Rosters(k - 1) \cup
         { Append(r, MemberRow(1, u)) :
             r \in {x \in Rosters(k - 1) : Len(x) = k - 1}, u \in People }

DistinctUsers(rows) ==
    \A i, j \in 1..Len(rows) : rows[i].user_id = rows[j].user_id => i = j

InitChunk ==
    /\ chat_config = {}
    /\ members = {}
    /\ DB_LOCK = Unlocked
    /\ stop_flags = [c \in Chats |-> 0]
    /\ events = <<>>
    /\ pc = [t \in Tasks |-> "idle"]
    /\ loc = [t \in Tasks |-> FreshLocals]
    /\ last_reply = [handler |-> "", chat_id |-> 0, text |-> ""]
    /\ nev = 0
    /\ stops = 0
    /\ \E rows \in {r \in Rosters(MaxRoster) : DistinctUsers(r)}, n \in ProbeChunkSizes :
          probe = [op |-> "chunks", rows |-> rows,
                   cfg |-> [DEFAULTS EXCEPT !.chunk_size = n, !.tag_style = "name"],
                   chunks |-> <<>>, done |-> FALSE]

\* tag_all's  chunks = list(chunkify(mentions, max(1, int(cfg["chunk_size"]))))
ApplyChunks ==
    /\ probe.op = "chunks"
    /\ ~probe.done
    /\ probe' = [probe EXCEPT !.chunks = RunChunks(probe.rows, probe.cfg), !.done = TRUE]
    /\ UNCHANGED <<chat_config, members, DB_LOCK, stop_flags, events, pc, loc, last_reply,
                   nev, stops>>

NextChunk == ApplyChunks

SpecChunk == InitChunk /\ [][NextChunk]_vars

\* ------------------------------------------------------------- claims
IsRun(t) == loc[t].handler = "tag_all"

Out(t) == loc[t].out

ChunkKinds == {"send", "reply_send", "fallback"}

TerminalNotices == {"denied", "empty", "stopped", "done"}

Has(t, kind) == \E i \in 1..Len(Out(t)) : Out(t)[i].kind = kind

CountOf(t, kinds) == Cardinality({i \in 1..Len(Out(t)) : Out(t)[i].kind \in kinds})

\* The chunks of the run that a send_message call delivered.
SentIdx(t) ==
    {Out(t)[i].idx : i \in {j \in 1..Len(Out(t)) : Out(t)[j].kind \in ChunkKinds /\ Out(t)[j].ok}}

\* The chunks of the run for which a call (copy_to or send_message) was made.
AttemptedIdx(t) ==
    {Out(t)[i].idx : i \in {j \in 1..Len(Out(t)) : Out(t)[j].kind \in ChunkKinds \cup {"copy"}}}

IsPrefix(a, b) == Len(a) <= Len(b) /\ SubSeq(b, 1, Len(a)) = a

LastKind(t) == IF Out(t) = <<>> THEN "" ELSE Out(t)[Len(Out(t))].kind

\* The run of task t is at the boundary before a chunk with the flag set.
AtBoundarySet(t) ==
    /\ IsRun(t)
    /\ pc[t] = "loop"
    /\ loc[t].idx <= Len(loc[t].chunks)
    /\ events[loc[t].flag]

C1_Step ==
    \A t \in Tasks :
        (AtBoundarySet(t) /\ pc'[t] # "loop") =>
            /\ pc'[t] = "stopped"
            /\ Out(t)' = Append(Out(t), Entry("stopped", loc[t].idx, "Stopped.", TRUE))

C1_Keep ==
    \A t \in Tasks :
        (IsRun(t) /\ ~Finished(t)) => IsPrefix(Out(t), Out(t)')

C1_Inv ==
    \A t \in Tasks : \A i \in 1..Len(Out(t)) :
        (IsRun(t) /\ Out(t)[i].kind = "stopped") =>
            /\ pc[t] \in {"stopped", "done"}
            /\ SentIdx(t) = 1..(Out(t)[i].idx - 1)
            /\ \A j \in AttemptedIdx(t) : j < Out(t)[i].idx

\* C1: a run that finds the chat's flag set at the boundary before chunk i
\* answers "Stopped" there and makes no call for chunk i or a later one;
\* the chunks before i were all sent, and what a run has sent stays in its
\* record.
C1_StopAtBoundary == [](C1_Inv) /\ [][C1_Step /\ C1_Keep]_vars

C1_Witness ==
    \E t \in Tasks :
        /\ IsRun(t) /\ pc[t] = "done"
        /\ \E i \in 1..Len(Out(t)) : Out(t)[i].kind = "stopped" /\ Out(t)[i].idx = 2
        /\ SentIdx(t) = {1}

\* C2: a run of a permitted user on a non-empty roster (it sent its
\* header), started after at least one /stopall and with no /stopall since
\* it cleared the flag, has sent every chunk and ended with "Done" when its
\* handler is over.
C2_StopDoesNotPoison ==
    \A t \in Tasks :
        (IsRun(t) /\ Finished(t) /\ Has(t, "header")
            /\ loc[t].stops0 >= 1 /\ stops = loc[t].stops0) =>
            /\ SentIdx(t) = 1..Len(loc[t].chunks)
            /\ LastKind(t) = "done"

\* C3: a run in which a call for a chunk raised has still gone on: when its
\* handler is over a call was made for every chunk up to the end (or up to
\* the boundary where it stopped) and its last call is the "Done" or
\* "Stopped" notice.
C3_ContinueOnError ==
    \A t \in Tasks :
        (IsRun(t) /\ Finished(t)
            /\ \E i \in 1..Len(Out(t)) :
                  Out(t)[i].kind \in ChunkKinds \cup {"copy"} /\ ~Out(t)[i].ok) =>
            /\ pc[t] = "done"
            /\ LastKind(t) \in {"done", "stopped"}
            /\ LastKind(t) = "done" => AttemptedIdx(t) = 1..Len(loc[t].chunks)

\* C4: a tag_all handler that has returned has made exactly one of the four
\* terminal notices: the denial, the empty-roster guidance, "Stopped" or
\* "Done".
C4_ExactlyOneNotice ==
    \A t \in Tasks :
        (IsRun(t) /\ pc[t] = "done") => CountOf(t, TerminalNotices) = 1

\* C5: when exactly two set_config calls on one chat, changing different
\* fields, are both over, the stored row carries both changes.
C5_NoLostUpdate ==
    (/\ nev = 2
     /\ \A t \in Tasks : pc[t] = "done" /\ loc[t].handler \in SettingsHandlers
     /\ loc[1].chat_id = loc[2].chat_id
     /\ DOMAIN loc[1].kwargs \cap DOMAIN loc[2].kwargs = {}) =>
        \A row \in ConfigRowsOf(chat_config, loc[1].chat_id) :
            \A t \in Tasks : \A f \in DOMAIN loc[t].kwargs :
                ConfigOfRow(row)[f] = loc[t].kwargs[f]

LookupSaysAdmin(t) ==
    /\ \E i \in 1..Len(Out(t)) : Out(t)[i].kind = "get_chat_administrators" /\ Out(t)[i].ok
    /\ loc[t].user_id \in ChatAdmins(loc[t].chat_id)

\* C6: a run on a chat with only_admins on, whose user the lookup did not
\* show to be an administrator (not listed, or the lookup raised), has made
\* the lookup and the denial and nothing else, and its handler is over.
C6_DeniedSendsNothing ==
    \A t \in Tasks :
        (IsRun(t) /\ pc[t] \notin {"gc_select", "gc_return", "admin"}
            /\ loc[t].cfg.only_admins /\ ~LookupSaysAdmin(t)) =>
            /\ pc[t] = "done"
            /\ Len(Out(t)) = 2
            /\ Out(t)[1].kind = "get_chat_administrators"
            /\ Out(t)[2].kind = "denied"

C6_Witness ==
    \E t \in Tasks :
        /\ IsRun(t) /\ pc[t] = "done" /\ loc[t].cfg.only_admins
        /\ loc[t].user_id \in ChatAdmins(loc[t].chat_id)
        /\ Len(Out(t)) = 2 /\ ~Out(t)[1].ok /\ Out(t)[2].kind = "denied"

C7_Step ==
    \A t \in Tasks :
        (IsRun(t) /\ pc[t] = "list" /\ pc'[t] # "list"
            /\ MemberRowsOf(members, loc[t].chat_id) = {}) =>
            /\ pc'[t] = "done"
            /\ stop_flags' = stop_flags
            /\ events' = events
            /\ Out(t)' = Append(Out(t), Entry("empty", 0, "I don't know anyone here yet.", TRUE))

C7_Inv ==
    \A t \in Tasks :
        (IsRun(t) /\ Has(t, "empty")) =>
            /\ pc[t] = "done"
            /\ ~Has(t, "header")
            /\ AttemptedIdx(t) = {}

\* C7: a run whose roster snapshot is empty answers the guidance and
\* returns: the registry and the chat's flag are as they were, no header
\* and no chunk call is made.
C7_EmptyRosterNoRun == [](C7_Inv) /\ [][C7_Step]_vars

C7_Witness ==
    \E t \in Tasks :
        /\ IsRun(t) /\ pc[t] = "done" /\ Has(t, "empty")
        /\ stop_flags[loc[t].chat_id] # 0
        /\ events[stop_flags[loc[t].chat_id]]

RECURSIVE Flatten(_)
Flatten(chunks) == IF chunks = <<>> THEN <<>> ELSE Head(chunks) \o Flatten(Tail(chunks))

CeilDiv(k, n) == (k + n - 1) \div n

\* C8: for a snapshot of k rows and a stored chunk_size, with
\* n = max(1, chunk_size), tag_all builds ceil(k/n) chunks, none empty, all
\* but the last of n elements, whose concatenation is the mentions of the
\* snapshot in order.
C8_Chunking ==
    (probe.op = "chunks" /\ probe.done) =>
        LET k == Len(probe.rows)
            n == IF probe.cfg.chunk_size >= 1 THEN probe.cfg.chunk_size ELSE 1
            ch == probe.chunks
        IN  /\ Len(ch) = CeilDiv(k, n)
            /\ \A i \in 1..Len(ch) : Len(ch[i]) >= 1 /\ Len(ch[i]) <= n
            /\ \A i \in 1..(Len(ch) - 1) : Len(ch[i]) = n
            /\ Flatten(ch) = Mentions(probe.rows, probe.cfg)

C8_Witness ==
    /\ probe.op = "chunks" /\ probe.done
    /\ probe.cfg.chunk_size = 2 /\ Len(probe.rows) = 3
    /\ Len(probe.chunks) = 2 /\ Len(probe.chunks[2]) = 1

\* The chunk calls of a run, in the order they were made.
ChunkCalls(t) == SelectSeq(Out(t), LAMBDA e : e.kind \in ChunkKinds)

Delivered(t) == SelectSeq(Out(t), LAMBDA e : e.kind \in ChunkKinds /\ e.ok)

C9_Inv ==
    \A t \in Tasks :
        (IsRun(t) /\ Has(t, "header")) =>
            LET ch == RunChunks(loc[t].rows, loc[t].cfg)
            IN  /\ \A k \in 1..Len(Delivered(t)) : Delivered(t)[k].idx = k
                /\ \A k \in 1..Len(ChunkCalls(t)) :
                      /\ ChunkCalls(t)[k].idx <= Len(ch)
                      /\ ChunkCalls(t)[k].text = Join(" ", ch[ChunkCalls(t)[k].idx])

C9_Frame ==
    \A t \in Tasks :
        (IsRun(t) /\ Has(t, "header") /\ members' # members) => loc'[t] = loc[t]

\* C9: the chunks a run delivers are chunk 1, 2, ... of its one snapshot,
\* in that order, each with the mentions of the snapshot's rows, whatever
\* upserts and removals change in the members table meanwhile; a change of
\* the table changes nothing a run holds.
C9_SnapshotOrder == [](C9_Inv) /\ [][C9_Frame]_vars

C9_Witness ==
    \E t \in Tasks :
        /\ IsRun(t) /\ SentIdx(t) = {1, 2}
        /\ MemberRowsOf(members, loc[t].chat_id) # {loc[t].rows[i] : i \in 1..Len(loc[t].rows)}

DocumentedDefaults ==
    [ only_admins |-> TRUE, copy_message |-> FALSE, tag_style |-> "empty",
      emoji |-> "[U+1F4E3]", chunk_size |-> 8, delay_ms |-> 900 ]

\* get_config of task t (a tag_all) has returned.
GotConfig(t) == IsRun(t) /\ pc[t] \notin {"gc_select", "gc_return"}

C10_Step ==
    /\ \A t \in Tasks :
          (IsRun(t) /\ pc[t] = "gc_return" /\ pc'[t] # "gc_return"
              /\ ConfigRowsOf(chat_config, loc[t].chat_id) = {}) =>
              /\ loc'[t].cfg = DocumentedDefaults
              /\ \E row \in chat_config' :
                    /\ ConfigRowsOf(chat_config', loc[t].chat_id) = {row}
                    /\ ConfigOfRow(row) = DocumentedDefaults
    /\ \A c \in Chats :
          ConfigRowsOf(chat_config, c) # {} =>
              ConfigRowsOf(chat_config', c) = ConfigRowsOf(chat_config, c)

C10_Inv ==
    /\ \A c \in Chats : Cardinality(ConfigRowsOf(chat_config, c)) <= 1
    /\ \A t \in Tasks :
          GotConfig(t) =>
              \E row \in chat_config :
                  /\ ConfigRowsOf(chat_config, loc[t].chat_id) = {row}
                  /\ loc[t].cfg = ConfigOfRow(row)

\* C10: get_config on a chat without a row returns the documented defaults
\* and leaves exactly one row holding them; with only get_config calls,
\* one after another or at the same time, the row stays as it is, every
\* call returns what the row holds, and no chat has more than one row.
C10_DefaultsMaterialized == [](C10_Inv) /\ [][C10_Step]_vars

C10_Witness ==
    /\ \A t \in Tasks : GotConfig(t) /\ ~Finished(t) /\ loc[t].cfg = DocumentedDefaults
    /\ loc[1].chat_id = loc[2].chat_id
    /\ Cardinality(ConfigRowsOf(chat_config, loc[1].chat_id)) = 1
    /\ DefaultRow(loc[1].chat_id) \in chat_config

\* What get_config(c) returns for a table.
ConfigView(table, c) ==
    IF ConfigRowsOf(table, c) = {} THEN DEFAULTS
    ELSE ConfigOfRow(CHOOSE r \in ConfigRowsOf(table, c) : TRUE)

IsWrite(t) == pc[t] = "sc_write" /\ pc'[t] = "done"

C11_Write ==
    \A t \in Tasks :
        IsWrite(t) =>
            /\ ConfigView(chat_config', loc[t].chat_id) =
                  [f \in ConfigFields |->
                      IF f \in DOMAIN loc[t].kwargs THEN loc[t].kwargs[f]
                      ELSE ConfigView(chat_config, loc[t].chat_id)[f]]
            /\ \A c \in Chats \ {loc[t].chat_id} :
                  ConfigRowsOf(chat_config', c) = ConfigRowsOf(chat_config, c)

C11_Frame ==
    (\A t \in Tasks : ~IsWrite(t)) =>
        \A c \in Chats : ConfigView(chat_config', c) = ConfigView(chat_config, c)

C11_Read ==
    \A t \in Tasks :
        (pc[t] = "gc_return" /\ pc'[t] # "gc_return" /\ loc[t].ret = "emojitagtype") =>
            loc'[t].cfg = ConfigView(chat_config', loc[t].chat_id)

\* C11: with one settings command at a time, what get_config would return
\* for a chat changes only when a set_config writes, and then exactly in
\* the fields of its kwargs, which get their new values; every other
\* field, and every other chat's row, keeps the value it had before the
\* call.  The get_config of a following command returns that config.
C11_PartialUpdate == [][C11_Write /\ C11_Frame /\ C11_Read]_vars

C11_Witness ==
    \E t \in Tasks :
        /\ pc[t] = "done" /\ loc[t].handler = "emojitagtype"
        /\ ConfigView(chat_config, 1) =
              [DEFAULTS EXCEPT !.only_admins = FALSE, !.copy_message = TRUE,
                               !.chunk_size = 0, !.tag_style = "emoji"]

UpsertStatuses == {"member", "administrator", "creator"}

RemoveStatuses == {"left", "kicked"}

\* The upserts and removals of account k among the first n operations of
\* the script.
OpsOn(k, n) ==
    {i \in 1..n : probe.ops[i].user.id = k
                  /\ probe.ops[i].status \in UpsertStatuses \cup RemoveStatuses}

LastOpOn(k, n) == CHOOSE i \in OpsOn(k, n) : \A j \in OpsOn(k, n) : j <= i

KeyRows(table, c, k) == {r \in table : r.chat_id = c /\ r.user_id = k}

C12_Inv ==
    \A k \in {1, 2} :
        OpsOn(k, nev) # {} =>
            LET op == probe.ops[LastOpOn(k, nev)]
            IN  \A rows \in list_members(members, probe.chat) :
                    LET at == {i \in 1..Len(rows) : rows[i].user_id = k}
                    IN  IF op.status \in UpsertStatuses
                        THEN /\ Cardinality(at) = 1
                             /\ \A i \in at : rows[i] = MemberRow(probe.chat, op.user)
                        ELSE at = {}

C12_Frame ==
    nev' = nev + 1 =>
        \A c \in Chats, k \in 1..4 :
            (c # probe.chat \/ k # probe.ops[nev + 1].user.id) =>
                KeyRows(members', c, k) = KeyRows(members, c, k)

\* C12: after any sequence of membership updates, list_members shows for
\* each account what the last upsert or removal of that account left:
\* exactly one row with the fields of that upsert, or no row after a
\* removal; an update changes no row of another key.
C12_LastWriteWins == [](C12_Inv) /\ [][C12_Frame]_vars

C12_Witness ==
    /\ probe.op = "roster" /\ nev = 3
    /\ probe.ops[1].user = Person(1) /\ probe.ops[1].status = "member"
    /\ probe.ops[2].user.username = "" /\ probe.ops[2].user.id = 1
    /\ probe.ops[2].status = "administrator"
    /\ probe.ops[3].user.id = 1 /\ probe.ops[3].status = "kicked"
    /\ KeyRows(members, 1, 1) = {}
    /\ KeyRows(members, 1, 2) # {}

\* C13: in a run, a delivered chunk that is not the last is followed by a
\* sleep of delay_ms; no sleep is made for the last chunk, so "Done"
\* comes right after the call that delivered it.
C13_Pacing ==
    \A t \in Tasks :
        (IsRun(t) /\ Has(t, "header")) =>
            /\ \A i \in 1..Len(Out(t)) :
                  (Out(t)[i].kind \in ChunkKinds /\ Out(t)[i].ok
                      /\ Out(t)[i].idx < Len(loc[t].chunks)) =>
                      /\ i < Len(Out(t))
                      /\ Out(t)[i + 1] =
                            Entry("sleep", Out(t)[i].idx, IntStr(loc[t].cfg.delay_ms), TRUE)
            /\ \A i \in 1..Len(Out(t)) :
                  Out(t)[i].kind = "sleep" => Out(t)[i].idx < Len(loc[t].chunks)
            /\ LastKind(t) = "done" => Out(t)[Len(Out(t)) - 1].kind \in ChunkKinds

\* The body of chunk k of the run of task t.
BodyOf(t, k) == Join(" ", RunChunks(loc[t].rows, loc[t].cfg)[k])

\* Entry i of the run's record is followed by a delivered plain send of
\* the same chunk, or the task is about to make it.
FallsBack(t, i) ==
    IF i = Len(Out(t)) THEN pc[t] = "fallback"
    ELSE Out(t)[i + 1] = Entry("fallback", Out(t)[i].idx, BodyOf(t, Out(t)[i].idx), TRUE)

\* C14: with copy_message on and a replied message, every chunk starts
\* with a copy_to, followed by the anchored send of the chunk; when the
\* copy or the anchored send raises, the chunk's body is sent once as a
\* plain message and the run goes on.  Without copy_message or without a
\* replied message no copy_to is made and chunks are plain sends.
C14_CopyFallback ==
    \A t \in Tasks :
        (IsRun(t) /\ Has(t, "header")) =>
            IF loc[t].cfg.copy_message /\ loc[t].is_reply
            THEN /\ ~Has(t, "send")
                 /\ \A k \in AttemptedIdx(t) :
                       \E i \in 1..Len(Out(t)) : Out(t)[i].kind = "copy" /\ Out(t)[i].idx = k
                 /\ \A i \in 1..Len(Out(t)) :
                       /\ (Out(t)[i].kind = "copy" /\ Out(t)[i].ok) =>
                             IF i = Len(Out(t)) THEN pc[t] = "reply_send"
                             ELSE /\ Out(t)[i + 1].kind = "reply_send"
                                  /\ Out(t)[i + 1].idx = Out(t)[i].idx
                                  /\ Out(t)[i + 1].text = BodyOf(t, Out(t)[i].idx)
                       /\ (Out(t)[i].kind \in {"copy", "reply_send"} /\ ~Out(t)[i].ok) =>
                             FallsBack(t, i)
                       /\ Out(t)[i].kind = "fallback" => Out(t)[i - 1].kind \in {"copy", "reply_send"}
                 /\ pc[t] # "failed"
            ELSE ~Has(t, "copy") /\ ~Has(t, "reply_send") /\ ~Has(t, "fallback")

\* The link to an account: the invisible separator inside an anchor to
\* tg://user?id=<id>.
LinkTo(uid) == "<a href=\"tg://user?id=" \o IntStr(uid) \o "\">[U+2063]</a>"

EndsWith(s, suffix) ==
    Len(s) >= Len(suffix) /\ SubSeq(s, Len(s) - Len(suffix) + 1, Len(s)) = suffix

\* The non-empty first and last names joined by one space.
JoinedNames(row) ==
    IF row.first_name # "" /\ row.last_name # ""
    THEN row.first_name \o " " \o row.last_name
    ELSE row.first_name \o row.last_name

\* The display name as stated: 'member' when both names are empty.
DisplayNameAsStated(row) ==
    IF row.first_name = "" /\ row.last_name = "" THEN "member" ELSE JoinedNames(row)

\* The display name with the join trimmed: 'member' when nothing is left.
DisplayNameTrimmed(row) ==
    IF Strip(JoinedNames(row)) = "" THEN "member" ELSE Strip(JoinedNames(row))

\* The rendering the three styles are said to give, for a display name.
Rendered(row, style, emoji, name) ==
    LET handle == IF row.username # "" THEN "@" \o row.username ELSE ""
    IN  CASE style = "empty" -> handle \o LinkTo(row.user_id)
          [] style = "emoji" ->
                emoji \o " " \o (IF handle # "" THEN handle ELSE name) \o LinkTo(row.user_id)
          [] style = "name" -> name \o LinkTo(row.user_id)

\* C15 as stated: the rendering ends with the link; "empty" gives the
\* handle (if any) and the link, "emoji" the emoji, a space, the handle or
\* else the display name, and the link, "name" the display name and the
\* link; the display name is the non-empty names joined by one space, or
\* 'member' when both are empty.
C15_RenderAsStated ==
    (probe.op = "render" /\ probe.done) =>
        /\ EndsWith(probe.text, LinkTo(probe.row.user_id))
        /\ probe.text = Rendered(probe.row, probe.style, probe.emoji,
                                 DisplayNameAsStated(probe.row))

\* C15, amended: the same, with the display name being the non-empty names
\* joined by one space and then trimmed of surrounding whitespace, or
\* 'member' when nothing is left of it.
C15_Render ==
    (probe.op = "render" /\ probe.done) =>
        /\ EndsWith(probe.text, LinkTo(probe.row.user_id))
        /\ probe.text = Rendered(probe.row, probe.style, probe.emoji,
                                 DisplayNameTrimmed(probe.row))

C15_Witness ==
    /\ probe.op = "render" /\ probe.done
    /\ probe.style = "name" /\ probe.row.username = "alice"
    /\ probe.row.first_name = " " /\ probe.row.last_name = ""
    /\ probe.text = "member" \o LinkTo(probe.row.user_id)

\* The /all of task t is under way and will be denied: only_admins is on
\* for its chat and its user is not an administrator.
WillBeDenied(t) ==
    /\ IsRun(t)
    /\ pc[t] \in {"gc_select", "gc_return", "admin"}
    /\ ConfigView(chat_config, loc[t].chat_id).only_admins
    /\ loc[t].user_id \notin ChatAdmins(loc[t].chat_id)

C16_Step ==
    \A t \in Tasks :
        (WillBeDenied(t) /\ pc'[t] # pc[t]) =>
            /\ chat_config' = chat_config
            /\ members' = members
            /\ stop_flags' = stop_flags
            /\ events' = events
            /\ pc'[t] = "done" => LastKind(t)' = "denied"

\* C16: no step of a /all that ends with the denial changes the config
\* table, the members table, the registry of flags or a flag, also on a
\* chat that has no config row.
C16_DeniedChangesNothing == [][C16_Step]_vars

\* The commits to chat_config that the handler of task t made in a Config
\* Store call of the given kind.
CommitsIn(t, call) ==
    Cardinality({i \in 1..Len(loc[t].writes) : loc[t].writes[i] = call})

\* C17: a handler's get_config call and its set_config call have each
\* committed at most one write to chat_config, also on a chat that had no
\* row.
C17_OneWritePerCall ==
    \A t \in Tasks :
        /\ CommitsIn(t, "get_config") <= 1
        /\ CommitsIn(t, "set_config") <= 1

IsCommand(text) == Len(text) > 0 /\ Head(text) = "/"

\* Task t starts as the given handler on the next message of the script.
Starts(t, handlers) ==
    /\ pc[t] = "idle" /\ pc'[t] = "gc_select"
    /\ loc'[t].handler \in handlers
    /\ loc'[t].chat_id = Msg.chat

C18_Step ==
    (probe.op = "messages" /\ nev' = nev + 1
        /\ ChatTypeOf(Msg.chat) \in {"group", "supergroup"}) =>
        /\ Msg.text = "/all" => \E t \in Tasks : Starts(t, {"tag_all"})
        /\ Msg.text = "/stopall" =>
              /\ stops' = stops + 1
              /\ stop_flags'[Msg.chat] # 0
              /\ events'[stop_flags'[Msg.chat]]
        /\ Msg.text \in SettingsTexts => \E t \in Tasks : Starts(t, SettingsHandlers)
        /\ members' # members => (~IsCommand(Msg.text) /\ ~Msg.user.is_bot)
        /\ (~IsCommand(Msg.text) /\ ~Msg.user.is_bot) =>
              members' = ReplaceMember(members, MemberRow(Msg.chat, Msg.user))

\* C18: of the messages of a group chat, /all starts tag_all, /stopall
\* sets the chat's flag, a settings command starts its set_config, and
\* the sender is upserted exactly for the messages that are no command and
\* come from an account that is no bot.
C18_GroupDispatch == [][C18_Step]_vars

\* The entry of chat c in the registry and whether its Event is set.
FlagState(sf, ev, c) ==
    [entry |-> sf[c], is_set |-> IF sf[c] = 0 THEN FALSE ELSE ev[sf[c]]]

OthersKeep(a) ==
    \A b \in Chats \ {a} :
        FlagState(stop_flags', events', b) = FlagState(stop_flags, events, b)

C19_Inv ==
    /\ \A c \in Chats : stop_flags[c] \in 0..Len(events)
    /\ \A a, b \in Chats : (a # b /\ stop_flags[a] # 0) => stop_flags[a] # stop_flags[b]
    /\ \A t \in Tasks :
          (IsRun(t) /\ Has(t, "header")) => loc[t].flag = stop_flags[loc[t].chat_id]

C19_Step ==
    /\ \A c \in Chats : stop_flags[c] # 0 => stop_flags'[c] = stop_flags[c]
    /\ Len(events') >= Len(events)
    /\ stops' # stops => OthersKeep(last_reply'.chat_id)
    /\ \A t \in Tasks :
          (pc'[t] # pc[t]) =>
              /\ IsRun(t) => OthersKeep(loc[t].chat_id)
              /\ IsRun(t)' => OthersKeep(loc'[t].chat_id)
              /\ (IsRun(t) /\ pc'[t] = "stopped") =>
                    FlagState(stop_flags, events, loc[t].chat_id).is_set

\* C19: each chat has at most one Event in stop_flags and no two chats
\* share one; an entry is never removed or replaced; a /stopall and every
\* step of a /all leave the entry and the Event of every other chat as
\* they are, and a run answers "Stopped" only when the Event of its own
\* chat is set.
C19_PerChatFlags == [](C19_Inv) /\ [][C19_Step]_vars

C19_Witness ==
    \E t \in Tasks :
        /\ IsRun(t) /\ loc[t].chat_id = 1 /\ pc[t] = "done" /\ LastKind(t) = "done"
        /\ loc[t].stops0 < stops
        /\ FlagState(stop_flags, events, 2).is_set
        /\ ~FlagState(stop_flags, events, 1).is_set

Contains(text, part) ==
    \E p \in 1..(Len(text) - Len(part) + 1) : SubSeq(text, p, p + Len(part) - 1) = part

\* The delivered chunk messages of the run of task t that mention account
\* uid, i.e. hold the link to it.
DeliveredMentions(t, uid) ==
    {j \in 1..Len(Out(t)) :
        /\ Out(t)[j].kind \in ChunkKinds
        /\ Out(t)[j].ok
        /\ Contains(Out(t)[j].text, LinkTo(uid))}

\* C20: in a run, no member of the snapshot is mentioned in more than one
\* delivered chunk message, whichever of the three sends delivered it, and
\* when the run has answered "Done" every member of the snapshot is
\* mentioned in exactly one.
C20_MentionedOnce ==
    \A t \in Tasks :
        (IsRun(t) /\ Has(t, "header")) =>
            \A i \in 1..Len(loc[t].rows) :
                /\ Cardinality(DeliveredMentions(t, loc[t].rows[i].user_id)) <= 1
                /\ Has(t, "done") =>
                      Cardinality(DeliveredMentions(t, loc[t].rows[i].user_id)) = 1

=============================================================================
